---- MODULE Spec2Model ----
(***************************************************************************)
(* The batch command of youtube_audio_downloader (cli/batch.py) with the   *)
(* collaborator it calls (core/downloader.py) and the URL validator        *)
(* (utils/validators.py), and the configuration store (core/config.py).    *)
(*                                                                         *)
(* A line of the input file is a sequence of tokens: " " is a whitespace   *)
(* character, "#" the comment marker, "http://", "https://" and "www."     *)
(* accepted prefixes, and "x" any other text.  A URL is a stripped         *)
(* line.  The resume-state file is absent, not valid JSON, or a JSON       *)
(* object with some of the keys "processed" (an array) and "failed" (an    *)
(* object); the timestamps the code writes are never read back by any      *)
(* decision and are left out.                                              *)
(***************************************************************************)
EXTENDS Integers, Sequences, FiniteSets, TLC

\* ------------------------------------------------------------------ bounds
MaxLines == 3
MaxTok == 2
MaxFileLines == 4
MaxRerunLines == 2
MaxRuns == 2
MaxUpdates == 2

\* ------------------------------------------------------------- vocabulary
\* The tokens the lines of an input list are drawn from ("https://", the third
\* accepted prefix, behaves as "http://" does and is not drawn).
Tokens == {" ", "#", "http://", "www.", "x"}

RECURSIVE SeqsUpTo(_, _)
SeqsUpTo(S, n) ==
    IF n = 0 THEN {<<>>}
    ELSE LET shorter == SeqsUpTo(S, n - 1)
         IN shorter \cup {Append(s, t) : s \in shorter, t \in S}

AllLines == SeqsUpTo(Tokens, MaxTok)

UrlA == <<"http://", "x">>
UrlB == <<"www.", "x">>
UrlSet == {UrlA, UrlB}

\* The lines an input list of a batch run is made of: a comment, a line that
\* is no URL, and two URLs.
BatchLines == {<<"#", "x">>, <<"x">>, UrlA, UrlB}

EmptyMap == [u \in {} |-> [line |-> 0, error |-> ""]]

\* str(e) of an OSError raised by output_dir.mkdir
MkdirError == "[Errno 13] Permission denied"

\* ------------------------------------------------------ utils/validators.py
AcceptedPrefixes == {"http://", "https://", "www."}

\* Fault: the "www." prefix is not accepted.
validate_url_no_www(url) == url # <<>> /\ Head(url) \in {"http://", "https://"}

validate_url(url) == url # <<>> /\ Head(url) \in AcceptedPrefixes

\* --------------------------------------------------------- str operations
RECURSIVE lstrip(_)
lstrip(line) ==
    IF line # <<>> /\ Head(line) = " " THEN lstrip(Tail(line)) ELSE line

RECURSIVE rstrip(_)
rstrip(line) ==
    IF line # <<>> /\ line[Len(line)] = " "
    THEN rstrip(SubSeq(line, 1, Len(line) - 1))
    ELSE line

strip(line) == rstrip(lstrip(line))

startswith(line, tok) == line # <<>> /\ Head(line) = tok

\* ------------------------------------------- BatchProcessor.read_urls_from_file
\* One iteration of the for loop over enumerate(f, 1): acc is the pair of the
\* urls list and the set of echoed "Skipping invalid URL" reports.
ReadLine(acc, line_num, raw) ==
    LET line == strip(raw)
    IN IF line = <<>> \/ startswith(line, "#")
       THEN acc
       ELSE IF validate_url(line)
            THEN [acc EXCEPT !.urls = Append(@, [line |-> line_num, url |-> line])]
            ELSE [acc EXCEPT !.skipped = @ \cup {[line |-> line_num, text |-> line]}]

RECURSIVE ReadFrom(_, _, _)
ReadFrom(f, line_num, acc) ==
    IF line_num > Len(f) THEN acc
    ELSE ReadFrom(f, line_num + 1, ReadLine(acc, line_num, f[line_num]))

read_urls_from_file(f) == ReadFrom(f, 1, [urls |-> <<>>, skipped |-> {}])

\* ----------------------------------------------------- the resume-state file
AbsentFile == [kind |-> "absent", keys |-> {}, processed |-> <<>>, failed |-> EmptyMap]
InvalidFile == [kind |-> "invalid", keys |-> {}, processed |-> <<>>, failed |-> EmptyMap]
JsonFile(keys, processed, failed) ==
    [kind |-> "json", keys |-> keys, processed |-> processed, failed |-> failed]
\* a file holding valid JSON whose top level is not an object, such as []
NonObjectFile ==
    [kind |-> "json_other", keys |-> {}, processed |-> <<>>, failed |-> EmptyMap]

\* Fault: the array is looked up under a key the file never holds.
GetProcessedWrongKey(f) == <<>>

\* dict.get(key, default) on the loaded JSON object
GetProcessed(f) == IF "processed" \in f.keys THEN f.processed ELSE <<>>
GetFailed(f) == IF "failed" \in f.keys THEN f.failed ELSE EmptyMap

Range(s) == {s[i] : i \in 1..Len(s)}

EmptyState == [processed |-> {}, failed |-> EmptyMap]

\* BatchProcessor.load_resume_data: cur is the state of the object it is
\* called on, kept when the file is absent or does not parse.
load_resume_data(f, cur) ==
    IF f.kind = "json"
    THEN [processed |-> Range(GetProcessed(f)), failed |-> GetFailed(f)]
    ELSE cur

\* BatchProcessor.__init__
BatchProcessor(f) == load_resume_data(f, EmptyState)

\* data.get(...) on a value that is not a dict raises AttributeError, which
\* the except clause (json.JSONDecodeError, IOError) does not catch.
load_raises(f) == f.kind = "json_other"

\* list(set): the orders in which a set can be listed
ListsOf(S) ==
    {s \in [1..Cardinality(S) -> S] : Range(s) = S}

SaveOutcomes == {"written", "open_failed", "write_failed"}

\* Fault: the processed set is written under a key that load does not read.
save_resume_data_wrong_key(f, processed, failed, outcome, order) ==
    CASE outcome = "written" -> JsonFile({"failed"}, <<>>, failed)
      [] outcome = "open_failed" -> f
      [] outcome = "write_failed" -> InvalidFile

\* BatchProcessor.save_resume_data: the file it leaves.  "open_failed" is an
\* IOError from mkdir or open (file untouched), "write_failed" an IOError
\* after open(..., 'w') truncated the file; both are swallowed.
save_resume_data(f, processed, failed, outcome, order) ==
    CASE outcome = "written" -> JsonFile({"processed", "failed"}, order, failed)
      [] outcome = "open_failed" -> f
      [] outcome = "write_failed" -> InvalidFile

\* The files a run can find: none, an unparsable one, "{}", and what earlier
\* runs can have written.
PriorFail == [line |-> 1, error |-> "Download failed"]
PriorFailedMaps == {EmptyMap, UrlA :> PriorFail}
PriorLists == {<<>>, <<UrlA>>, <<UrlB>>, <<UrlA, UrlB>>}
PriorFiles ==
    {AbsentFile, InvalidFile, NonObjectFile, JsonFile({}, <<>>, EmptyMap)}
    \cup {JsonFile({"processed", "failed"}, p, m) : p \in PriorLists, m \in PriorFailedMaps}

\* ------------------------------------------------ the configuration store
\* Config.DEFAULTS: two of its keys, each with its default value (the other
\* keys are handled by the same code).
DEFAULTS == [audio_quality |-> "192", audio_format |-> "mp3"]
\* the keys a caller or a file may name: the recognized ones and another
ConfigKeys == DOMAIN DEFAULTS \cup {"bogus"}
ConfigValues == {"192", "mp3", "other"}

\* Fault: set stores under any key.
config_set_unchecked(store, key, value) ==
    [store |-> (key :> value) @@ store, err |-> "none"]

\* Config.set
config_set(store, key, value) ==
    IF key \in DOMAIN DEFAULTS
    THEN [store |-> (key :> value) @@ store, err |-> "none"]
    ELSE [store |-> store, err |-> "KeyError"]

\* Config.update: updates is the mapping in its iteration order, a sequence
\* of <<key, value>>; the first set that raises ends the loop.
RECURSIVE config_update(_, _)
config_update(store, updates) ==
    IF updates = <<>>
    THEN [store |-> store, err |-> "none"]
    ELSE LET r == config_set(store, updates[1][1], updates[1][2])
         IN IF r.err # "none" THEN r ELSE config_update(r.store, Tail(updates))

\* Config.reset: key is a key or "None"
config_reset(store, key) ==
    IF key = "None"
    THEN [store |-> DEFAULTS, err |-> "none"]
    ELSE IF key \in DOMAIN DEFAULTS
         THEN [store |-> (key :> DEFAULTS[key]) @@ store, err |-> "none"]
         ELSE [store |-> store, err |-> "KeyError"]

\* The configuration file: absent, not valid JSON, valid JSON that is not an
\* object, or an object (data) with some of the keys.
NoData == [k \in {} |-> ""]
ConfigFile(kind, data) == [kind |-> kind, data |-> data]
ConfigFiles ==
    {ConfigFile(k, NoData) : k \in {"absent", "invalid", "json_other"}}
    \cup {ConfigFile("json", d) :
            d \in UNION {[K -> ConfigValues] : K \in SUBSET ConfigKeys}}

\* Config.load: the keys of the file that are in DEFAULTS overwrite the stored
\* values; a file that does not parse prints a warning; user_config.items()
\* on a value that is not a dict raises AttributeError, which is not caught.
config_load(store, user) ==
    IF user.kind = "json"
    THEN LET valid == {k \in DOMAIN user.data : k \in DOMAIN DEFAULTS}
         IN [store |-> [k \in DOMAIN store \cup valid |->
                          IF k \in valid THEN user.data[k] ELSE store[k]],
             err |-> "none"]
    ELSE IF user.kind = "json_other"
         THEN [store |-> store, err |-> "AttributeError"]
         ELSE IF user.kind = "invalid"
              THEN [store |-> store, err |-> "warning"]
              ELSE [store |-> store, err |-> "none"]

\* A call on the store: the values before it, its arguments, what it raised.
ConfigCall(op, before, r, key, value, updates, user) ==
    [store |-> r.store, err |-> r.err, op |-> op, before |-> before,
     key |-> key, value |-> value, updates |-> updates, user |-> user]

\* Config.__init__: self._config = self.DEFAULTS.copy()
ConfigNew ==
    ConfigCall("copy", DEFAULTS, [store |-> DEFAULTS, err |-> "none"],
               "None", "", <<>>, ConfigFile("absent", NoData))

\* ------------------------------------------------------------------ state
VARIABLES
    input,           \* the input list: a sequence of lines
    file,            \* the resume-state file (processor.resume_file)
    resume,          \* --resume
    clear_resume,    \* --clear-resume
    skip_existing,   \* --skip-existing
    pc,              \* where the run is: main, clear, read, loop, call,
                     \* summary, exited, aborted
    processed_urls,  \* BatchProcessor.processed_urls
    failed_urls,     \* BatchProcessor.failed_urls
    urls,            \* the list read_urls_from_file returned
    idx,             \* the loop index of process_urls (1-based)
    success_count,
    failed_count,
    calls,           \* the collaborator invocations made, in order
    echoed,          \* what the run has echoed (messages with a number)
    summary,         \* the final summary, once printed
    exit_code,       \* the process exit status, -1 while running
    prior,           \* the resume state as process_urls found it
    sigint_at,       \* the loop index at which the first interrupt signal
                     \* of this run arrived, 0 while there was none
    stopped,         \* the loop was left by the interrupt handler's break
    ioFailed,        \* a save of this run hit an IOError
    run,             \* which run of the command this is
    prev,            \* what the run before this one returned
    cfg              \* the configuration store (core/config.py) and its last call

vars == <<input, file, resume, clear_resume, skip_existing, pc, processed_urls, failed_urls,
          urls, idx, success_count, failed_count, calls, echoed, summary,
          exit_code, prior, sigint_at, stopped, ioFailed, run, prev, cfg>>

sigint == sigint_at > 0

NoSummary == [total |-> -1, success |-> -1, failed |-> -1, failures |-> EmptyMap]
NoPrev == [success |-> 0, failed |-> 0, total |-> 0, complete |-> FALSE,
           persisted |-> FALSE]

Msg(m, n) == [msg |-> m, n |-> n]

\* The state of a process that has just started, at position p.
FreshAt(p) ==
    /\ pc = p
    /\ processed_urls = {}
    /\ failed_urls = EmptyMap
    /\ urls = <<>>
    /\ idx = 0
    /\ success_count = 0
    /\ failed_count = 0
    /\ calls = <<>>
    /\ echoed = {}
    /\ summary = NoSummary
    /\ exit_code = -1
    /\ prior = EmptyState
    /\ sigint_at = 0
    /\ stopped = FALSE
    /\ ioFailed = FALSE

\* The command started on one of the input lists `inputs`.
InitOf(inputs) ==
    /\ input \in inputs
    /\ file \in PriorFiles
    /\ resume \in BOOLEAN
    /\ clear_resume \in BOOLEAN
    /\ skip_existing \in BOOLEAN
    /\ FreshAt("main")
    /\ run = 1
    /\ prev = NoPrev
    /\ cfg = ConfigNew

Init == InitOf(SeqsUpTo(BatchLines, MaxLines))

\* ------------------------------------------------------------------- main
\* main: processor = BatchProcessor()
\* When the load raises, the exception leaves __init__ and main: the process
\* ends with a traceback (status 1) before the list is read.
Construct ==
    /\ pc = "main"
    /\ IF load_raises(file)
       THEN /\ pc' = "crashed"
            /\ exit_code' = 1
            /\ UNCHANGED <<processed_urls, failed_urls>>
       ELSE /\ LET st == BatchProcessor(file)
               IN /\ processed_urls' = st.processed
                  /\ failed_urls' = st.failed
            /\ pc' = "clear"
            /\ UNCHANGED exit_code
    /\ UNCHANGED <<input, file, resume, clear_resume, skip_existing, urls, idx, success_count,
                   failed_count, calls, echoed, summary, prior,
                   sigint_at, stopped, ioFailed, run, prev, cfg>>

\* Fault: the file is removed and the state loaded from it is kept.
ClearResumeFileOnly ==
    /\ pc = "clear"
    /\ IF clear_resume /\ file.kind # "absent"
       THEN /\ file' = AbsentFile
            /\ echoed' = echoed \cup {Msg("cleared", 0)}
       ELSE UNCHANGED <<file, echoed>>
    /\ pc' = "read"
    /\ UNCHANGED <<input, resume, clear_resume, skip_existing, processed_urls,
                   failed_urls, urls, idx, success_count,
                   failed_count, calls, summary, exit_code, prior, sigint_at,
                   stopped, ioFailed, run, prev, cfg>>

\* Fault: an existing file is removed whether or not clear_resume is given.
ClearResumeAlways ==
    /\ pc = "clear"
    /\ IF file.kind # "absent"
       THEN /\ file' = AbsentFile
            /\ processed_urls' = {}
            /\ failed_urls' = EmptyMap
            /\ echoed' = echoed \cup {Msg("cleared", 0)}
       ELSE UNCHANGED <<file, processed_urls, failed_urls, echoed>>
    /\ pc' = "read"
    /\ UNCHANGED <<input, resume, clear_resume, skip_existing, urls, idx,
                   success_count, failed_count, calls, summary, exit_code,
                   prior, sigint_at, stopped, ioFailed, run, prev, cfg>>

\* main: if clear_resume and processor.resume_file.exists(): ...
ClearResume ==
    /\ pc = "clear"
    /\ IF clear_resume /\ file.kind # "absent"
       THEN /\ file' = AbsentFile
            /\ processed_urls' = {}
            /\ failed_urls' = EmptyMap
            /\ echoed' = echoed \cup {Msg("cleared", 0)}
       ELSE UNCHANGED <<file, processed_urls, failed_urls, echoed>>
    /\ pc' = "read"
    /\ UNCHANGED <<input, resume, clear_resume, skip_existing, urls, idx, success_count,
                   failed_count, calls, summary, exit_code, prior, sigint_at,
                   stopped, ioFailed, run, prev, cfg>>

\* Fault: the empty list is not stopped.
NoValidUrlsNever(u) == FALSE

\* main: if not urls
NoValidUrls(u) == u = <<>>

\* main: urls = processor.read_urls_from_file(file); if not urls: sys.exit(1);
\* otherwise process_urls is entered.
ReadUrls ==
    /\ pc = "read"
    /\ LET r == read_urls_from_file(input)
           reports == {Msg("invalid_url", s.line) : s \in r.skipped}
       IN /\ urls' = r.urls
          /\ IF NoValidUrls(r.urls)
             THEN /\ echoed' = echoed \cup reports \cup {Msg("no_valid_urls", 0)}
                  /\ exit_code' = 1
                  /\ pc' = "exited"
                  /\ UNCHANGED <<idx, prior>>
             ELSE /\ echoed' = echoed \cup reports
                  /\ idx' = 1
                  /\ prior' = [processed |-> processed_urls, failed |-> failed_urls]
                  /\ pc' = "loop"
                  /\ UNCHANGED exit_code
    /\ UNCHANGED <<input, file, resume, clear_resume, skip_existing, processed_urls,
                   failed_urls, success_count, failed_count, calls, summary,
                   sigint_at, stopped, ioFailed, run, prev, cfg>>

\* ------------------------------------------- BatchProcessor.process_urls
Entry == urls[idx]

\* Fault: the membership test is inverted.
SkipEntryInverted(res, url, processed) == res /\ url \notin processed

\* Fault: the processed set is consulted whether or not resume is on.
SkipEntryIgnoresFlag(res, url, processed) == url \in processed

\* if resume and url in self.processed_urls
SkipEntry(res, url, processed) == res /\ url \in processed

\* Fault: an entry already in the map is kept instead of overwritten.
RecordFailureKeepsFirst(failed, url, line_num, error) ==
    failed @@ (url :> [line |-> line_num, error |-> error])

\* self.failed_urls[url] = {'line': line_num, 'error': error, ...}
RecordFailure(failed, url, line_num, error) ==
    (url :> [line |-> line_num, error |-> error]) @@ failed

\* Fault: the state is saved whether or not resume is on.
PersistAlways(processed, failed) ==
    \E outcome \in SaveOutcomes, order \in ListsOf(processed) :
       /\ file' = save_resume_data(file, processed, failed, outcome, order)
       /\ ioFailed' = (ioFailed \/ outcome # "written")

\* if resume: self.save_resume_data()
Persist(processed, failed) ==
    IF resume
    THEN \E outcome \in SaveOutcomes, order \in ListsOf(processed) :
            /\ file' = save_resume_data(file, processed, failed, outcome, order)
            /\ ioFailed' = (ioFailed \/ outcome # "written")
    ELSE UNCHANGED <<file, ioFailed>>

SetResult(r) == [calls EXCEPT ![Len(calls)].result = r]

\* Fault: a skipped entry is not counted.
LoopSkipUncounted ==
    /\ pc = "loop"
    /\ idx <= Len(urls)
    /\ SkipEntry(resume, urls[idx].url, processed_urls)
    /\ echoed' = echoed \cup {Msg("skipping", idx)}
    /\ idx' = idx + 1
    /\ UNCHANGED <<input, file, resume, clear_resume, skip_existing, pc, processed_urls,
                   failed_urls, urls, success_count, failed_count, calls,
                   summary, exit_code, prior, sigint_at, stopped, ioFailed,
                   run, prev, cfg>>

\* for idx, (line_num, url) in enumerate(urls, 1): the skip of an entry
\* already processed
LoopSkip ==
    /\ pc = "loop"
    /\ idx <= Len(urls)
    /\ SkipEntry(resume, Entry.url, processed_urls)
    /\ success_count' = success_count + 1
    /\ echoed' = echoed \cup {Msg("skipping", idx)}
    /\ idx' = idx + 1
    /\ UNCHANGED <<input, file, resume, clear_resume, skip_existing, pc, processed_urls,
                   failed_urls, urls, failed_count, calls, summary, exit_code,
                   prior, sigint_at, stopped, ioFailed, run, prev, cfg>>

\* if skip_existing: click.echo("Checking for existing files...")
\* No file is looked for: the message is all the option does.
ExistingCheck(skip, i) ==
    IF skip THEN {Msg("checking_existing", i)} ELSE {}

\* Fault: with skip_existing on the entry is taken for an existing file: it is
\* counted as a success and not downloaded.
LoopCallSkipsExisting ==
    /\ pc = "loop"
    /\ idx <= Len(urls)
    /\ ~SkipEntry(resume, Entry.url, processed_urls)
    /\ echoed' = echoed \cup ExistingCheck(skip_existing, idx)
    /\ IF skip_existing
       THEN /\ success_count' = success_count + 1
            /\ idx' = idx + 1
            /\ UNCHANGED <<calls, pc>>
       ELSE /\ calls' = Append(calls, [idx |-> idx, url |-> Entry.url,
                                       result |-> "inflight"])
            /\ pc' = "call"
            /\ UNCHANGED <<success_count, idx>>
    /\ UNCHANGED <<input, file, resume, clear_resume, skip_existing, processed_urls,
                   failed_urls, urls, failed_count,
                   summary, exit_code, prior, sigint_at, stopped, ioFailed, run,
                   prev, cfg>>

\* Fault: a call is started while another one is still in flight.
LoopCallOverlapping ==
    /\ pc \in {"loop", "call"}
    /\ idx <= Len(urls)
    /\ ~SkipEntry(resume, Entry.url, processed_urls)
    /\ echoed' = echoed \cup ExistingCheck(skip_existing, idx)
    /\ calls' = Append(calls, [idx |-> idx, url |-> Entry.url, result |-> "inflight"])
    /\ pc' = "call"
    /\ UNCHANGED <<input, file, resume, clear_resume, skip_existing, processed_urls,
                   failed_urls, urls, idx, success_count, failed_count,
                   summary, exit_code, prior, sigint_at, stopped, ioFailed, run,
                   prev, cfg>>

\* the try block is entered and download_audio called
LoopCall ==
    /\ pc = "loop"
    /\ idx <= Len(urls)
    /\ ~SkipEntry(resume, Entry.url, processed_urls)
    /\ echoed' = echoed \cup ExistingCheck(skip_existing, idx)
    /\ calls' = Append(calls, [idx |-> idx, url |-> Entry.url, result |-> "inflight"])
    /\ pc' = "call"
    /\ UNCHANGED <<input, file, resume, clear_resume, skip_existing, processed_urls,
                   failed_urls, urls, idx, success_count, failed_count,
                   summary, exit_code, prior, sigint_at, stopped, ioFailed, run,
                   prev, cfg>>

\* the for loop is exhausted: return success_count, failed_count
LoopEnd ==
    /\ pc = "loop"
    /\ idx > Len(urls)
    /\ pc' = "summary"
    /\ UNCHANGED <<input, file, resume, clear_resume, skip_existing, processed_urls,
                   failed_urls, urls, idx, success_count, failed_count, calls,
                   echoed, summary, exit_code, prior, sigint_at, stopped,
                   ioFailed, run, prev, cfg>>

\* Fault: an IOError of the save is not swallowed and ends the process.
DownloadTrueSaveFatal ==
    /\ pc = "call"
    /\ success_count' = success_count + 1
    /\ processed_urls' = processed_urls \cup {Entry.url}
    /\ IF resume
       THEN \E outcome \in SaveOutcomes, order \in ListsOf(processed_urls') :
               /\ file' = save_resume_data(file, processed_urls', failed_urls,
                                           outcome, order)
               /\ ioFailed' = (ioFailed \/ outcome # "written")
               /\ pc' = IF outcome = "written" THEN "loop" ELSE "crashed"
       ELSE /\ UNCHANGED <<file, ioFailed>>
            /\ pc' = "loop"
    /\ calls' = SetResult("ok")
    /\ idx' = idx + 1
    /\ UNCHANGED <<input, resume, clear_resume, skip_existing, failed_urls, urls,
                   failed_count, echoed, summary, exit_code, prior, sigint_at,
                   stopped, run, prev, cfg>>

\* Fault: a URL that failed before is not marked processed when it succeeds.
DownloadTrueFirstWins ==
    /\ pc = "call"
    /\ success_count' = success_count + 1
    /\ processed_urls' = IF Entry.url \in DOMAIN failed_urls
                         THEN processed_urls
                         ELSE processed_urls \cup {Entry.url}
    /\ Persist(processed_urls', failed_urls)
    /\ calls' = SetResult("ok")
    /\ idx' = idx + 1
    /\ pc' = "loop"
    /\ UNCHANGED <<input, resume, clear_resume, skip_existing, failed_urls, urls,
                   failed_count, echoed, summary, exit_code, prior, sigint_at,
                   stopped, run, prev, cfg>>

\* download_audio returned True
DownloadTrue ==
    /\ pc = "call"
    /\ success_count' = success_count + 1
    /\ processed_urls' = processed_urls \cup {Entry.url}
    /\ Persist(processed_urls', failed_urls)
    /\ calls' = SetResult("ok")
    /\ idx' = idx + 1
    /\ pc' = "loop"
    /\ UNCHANGED <<input, resume, clear_resume, skip_existing, failed_urls, urls,
                   failed_count, echoed, summary, exit_code, prior, sigint_at,
                   stopped, run, prev, cfg>>

\* The else branch of `if success`, reached when download_audio returned False.
FailedDownload(interrupted) ==
    /\ pc = "call"
    /\ failed_count' = failed_count + 1
    /\ failed_urls' = RecordFailure(failed_urls, Entry.url, Entry.line,
                                    "Download failed")
    /\ Persist(processed_urls, failed_urls')
    /\ calls' = SetResult("failed")
    /\ sigint_at' = (IF interrupted /\ ~sigint THEN idx ELSE sigint_at)
    /\ idx' = idx + 1
    /\ pc' = "loop"
    /\ UNCHANGED <<input, resume, clear_resume, skip_existing, processed_urls, urls,
                   success_count, echoed, summary, exit_code, prior, stopped,
                   run, prev, cfg>>

\* YouTubeDownloader.download caught a DownloadError or another Exception
\* and returned False
DownloadFalse == FailedDownload(FALSE)

\* An interrupt signal arrived while the call was in flight:
\* YouTubeDownloader.download caught the KeyboardInterrupt and returned False
DownloadInterrupted == FailedDownload(TRUE)

\* An exception left download_audio (output_dir.mkdir is outside its try):
\* the except Exception branch
DownloadRaises ==
    /\ pc = "call"
    /\ failed_count' = failed_count + 1
    /\ failed_urls' = RecordFailure(failed_urls, Entry.url, Entry.line, MkdirError)
    /\ Persist(processed_urls, failed_urls')
    /\ calls' = SetResult("raised")
    /\ idx' = idx + 1
    /\ pc' = "loop"
    /\ UNCHANGED <<input, resume, clear_resume, skip_existing, processed_urls, urls,
                   success_count, echoed, summary, exit_code, prior, sigint_at,
                   stopped, run, prev, cfg>>

\* A KeyboardInterrupt raised inside the try block but outside
\* YouTubeDownloader.download's own try: the except KeyboardInterrupt branch
InterruptInTry ==
    /\ pc = "call"
    /\ sigint_at' = (IF sigint THEN sigint_at ELSE idx)
    /\ stopped' = TRUE
    /\ Persist(processed_urls, failed_urls)
    /\ echoed' = echoed \cup {Msg("interrupted", 0)}
                        \cup (IF resume THEN {Msg("progress_saved", idx)} ELSE {})
    /\ calls' = SetResult("interrupted")
    /\ pc' = "summary"
    /\ UNCHANGED <<input, resume, clear_resume, skip_existing, processed_urls, failed_urls,
                   urls, idx, success_count, failed_count, summary, exit_code,
                   prior, run, prev, cfg>>

\* A KeyboardInterrupt raised at the head of the loop (lines 118-127, outside
\* the try): it leaves process_urls and main; the click command that main is
\* answers it with "Aborted!" and exit status 1, and no summary is printed.
InterruptOutsideTry ==
    /\ pc = "loop"
    /\ idx <= Len(urls)
    /\ sigint_at' = (IF sigint THEN sigint_at ELSE idx)
    /\ echoed' = echoed \cup {Msg("aborted", 0)}
    /\ exit_code' = 1
    /\ pc' = "aborted"
    /\ UNCHANGED <<input, file, resume, clear_resume, skip_existing, processed_urls,
                   failed_urls, urls, idx, success_count, failed_count, calls,
                   summary, prior, stopped, ioFailed, run, prev, cfg>>

\* The process is killed (or the machine stops) inside save_resume_data, after
\* open(..., 'w') truncated the file and before json.dump wrote all of it:
\* the file is left empty or cut short.  The memory of the dead process is
\* left as it was before the entry.
KilledInSave ==
    /\ pc = "call"
    /\ resume
    /\ file' = InvalidFile
    /\ calls' = SetResult("killed")
    /\ pc' = "killed"
    /\ UNCHANGED <<input, resume, clear_resume, skip_existing, processed_urls, failed_urls,
                   urls, idx, success_count, failed_count, echoed, summary,
                   exit_code, prior, sigint_at, stopped, ioFailed, run, prev, cfg>>

\* Fault: the exit status ignores the failures.
ExitStatusAlwaysZero(failed) == 0

\* sys.exit(0 if failed_count == 0 else 1)
ExitStatus(failed) == IF failed = 0 THEN 0 ELSE 1

\* Fault: a report that leaves the failed URLs out.
ReportWithoutFailures(us, success, failed, failed_map) ==
    [total |-> Len(us), success |-> success, failed |-> failed,
     failures |-> EmptyMap]

\* What main prints at the end, and writes to the --report file when one is
\* asked for: "Total URLs: {len(urls)}", the two counts, and one "Line {line}:
\* {url}" / "Error: {error}" entry for every item of processor.failed_urls.
Report(us, success, failed, failed_map) ==
    [total |-> Len(us), success |-> success, failed |-> failed,
     failures |-> failed_map]

\* main after process_urls returned: the summary and the exit
Summary ==
    /\ pc = "summary"
    /\ summary' = Report(urls, success_count, failed_count, failed_urls)
    /\ exit_code' = ExitStatus(failed_count)
    /\ pc' = "exited"
    /\ UNCHANGED <<input, file, resume, clear_resume, skip_existing, processed_urls,
                   failed_urls, urls, idx, success_count, failed_count, calls,
                   echoed, prior, sigint_at, stopped, ioFailed, run, prev, cfg>>

Next ==
    \/ Construct
    \/ ClearResume
    \/ ReadUrls
    \/ LoopSkip
    \/ LoopCall
    \/ LoopEnd
    \/ DownloadTrue
    \/ DownloadFalse
    \/ DownloadInterrupted
    \/ DownloadRaises
    \/ InterruptInTry
    \/ InterruptOutsideTry
    \/ KilledInSave
    \/ Summary

Spec == Init /\ [][Next]_vars

\* ------------------------------------------------- the command, run again
\* What a finished run hands to the next one: its return values, whether its
\* loop ran to the end, and whether every save it made was written.
Complete == pc = "exited" /\ summary # NoSummary /\ ~stopped

\* The command is started again on the same input list with the same flags;
\* only the resume-state file carries over.
Rerun ==
    /\ pc \in {"exited", "aborted", "crashed", "killed"}
    /\ run < MaxRuns
    /\ run' = run + 1
    /\ prev' = [success |-> success_count, failed |-> failed_count,
                total |-> Len(urls), complete |-> Complete,
                persisted |-> ~ioFailed]
    /\ pc' = "main"
    /\ processed_urls' = {}
    /\ failed_urls' = EmptyMap
    /\ urls' = <<>>
    /\ idx' = 0
    /\ success_count' = 0
    /\ failed_count' = 0
    /\ calls' = <<>>
    /\ echoed' = {}
    /\ summary' = NoSummary
    /\ exit_code' = -1
    /\ prior' = EmptyState
    /\ sigint_at' = 0
    /\ stopped' = FALSE
    /\ ioFailed' = FALSE
    /\ UNCHANGED <<input, file, resume, clear_resume, skip_existing, cfg>>

\* Up to MaxRuns runs in resume mode over a list of at most MaxRerunLines
\* lines, each run from the file the run before it left.
InitTwice ==
    InitOf(SeqsUpTo(BatchLines, MaxRerunLines)) /\ resume /\ ~clear_resume

NextTwice == Next \/ Rerun

SpecTwice == InitTwice /\ [][NextTwice]_vars

\* ------------------------------------------------ read_urls_from_file alone
\* Every input list of at most MaxFileLines lines of at most MaxTok tokens, read
\* by main's reading step.
InitRead ==
    /\ \E n \in 0..MaxFileLines : input \in [1..n -> AllLines]
    /\ file = AbsentFile
    /\ resume = FALSE
    /\ clear_resume = FALSE
    /\ skip_existing = FALSE
    /\ FreshAt("read")
    /\ run = 1
    /\ prev = NoPrev
    /\ cfg = ConfigNew

NextRead == ReadUrls

SpecRead == InitRead /\ [][NextRead]_vars

\* ------------------------------------------- save_resume_data, then a load
InfoSet == {PriorFail, [line |-> 2, error |-> MkdirError]}
FailedMaps == UNION {[D -> InfoSet] : D \in SUBSET UrlSet}

\* processor.save_resume_data() on any in-memory state
SaveState ==
    /\ pc = "save"
    /\ \E outcome \in SaveOutcomes, order \in ListsOf(processed_urls) :
          /\ file' = save_resume_data(file, processed_urls, failed_urls,
                                      outcome, order)
          /\ ioFailed' = (outcome # "written")
    /\ prior' = [processed |-> processed_urls, failed |-> failed_urls]
    /\ pc' = "load"
    /\ UNCHANGED <<input, resume, clear_resume, skip_existing, processed_urls, failed_urls,
                   urls, idx, success_count, failed_count, calls, echoed,
                   summary, exit_code, sigint_at, stopped, run, prev, cfg>>

\* BatchProcessor() of a new process on the same path
LoadState ==
    /\ pc = "load"
    /\ IF load_raises(file)
       THEN /\ pc' = "crashed"
            /\ UNCHANGED <<processed_urls, failed_urls>>
       ELSE /\ LET st == BatchProcessor(file)
               IN /\ processed_urls' = st.processed
                  /\ failed_urls' = st.failed
            /\ pc' = "loaded"
    /\ UNCHANGED <<input, file, resume, clear_resume, skip_existing, urls, idx,
                   success_count, failed_count, calls, echoed, summary,
                   exit_code, prior, sigint_at, stopped, ioFailed, run, prev, cfg>>

InitRoundTrip ==
    /\ input = <<>>
    /\ file \in PriorFiles
    /\ resume = TRUE
    /\ clear_resume = FALSE
    /\ skip_existing = FALSE
    /\ pc = "save"
    /\ processed_urls \in SUBSET UrlSet
    /\ failed_urls \in FailedMaps
    /\ urls = <<>>
    /\ idx = 0
    /\ success_count = 0
    /\ failed_count = 0
    /\ calls = <<>>
    /\ echoed = {}
    /\ summary = NoSummary
    /\ exit_code = -1
    /\ prior = EmptyState
    /\ sigint_at = 0
    /\ stopped = FALSE
    /\ ioFailed = FALSE
    /\ run = 1
    /\ prev = NoPrev
    /\ cfg = ConfigNew

NextRoundTrip == SaveState \/ LoadState

SpecRoundTrip == InitRoundTrip /\ [][NextRoundTrip]_vars

\* ---------------------------------------------------- the Config object
\* Calls of load, set, update and reset on one Config object, in any order.
\* The mappings given to update have at most MaxUpdates keys.
UpdateMappings ==
    {u \in UNION {[1..n -> ConfigKeys \X ConfigValues] : n \in 0..MaxUpdates} :
        \A i, j \in DOMAIN u : i # j => u[i][1] # u[j][1]}

ConfigLoad ==
    /\ pc = "config"
    /\ \E user \in ConfigFiles :
          cfg' = ConfigCall("load", cfg.store, config_load(cfg.store, user),
                            "None", "", <<>>, user)
    /\ UNCHANGED <<input, file, resume, clear_resume, skip_existing, pc, processed_urls,
                   failed_urls, urls, idx, success_count, failed_count, calls,
                   echoed, summary, exit_code, prior, sigint_at, stopped,
                   ioFailed, run, prev>>

ConfigSet ==
    /\ pc = "config"
    /\ \E key \in ConfigKeys, value \in ConfigValues :
          cfg' = ConfigCall("set", cfg.store, config_set(cfg.store, key, value),
                            key, value, <<>>, ConfigFile("absent", NoData))
    /\ UNCHANGED <<input, file, resume, clear_resume, skip_existing, pc, processed_urls,
                   failed_urls, urls, idx, success_count, failed_count, calls,
                   echoed, summary, exit_code, prior, sigint_at, stopped,
                   ioFailed, run, prev>>

ConfigUpdate ==
    /\ pc = "config"
    /\ \E updates \in UpdateMappings :
          cfg' = ConfigCall("update", cfg.store,
                            config_update(cfg.store, updates),
                            "None", "", updates, ConfigFile("absent", NoData))
    /\ UNCHANGED <<input, file, resume, clear_resume, skip_existing, pc, processed_urls,
                   failed_urls, urls, idx, success_count, failed_count, calls,
                   echoed, summary, exit_code, prior, sigint_at, stopped,
                   ioFailed, run, prev>>

ConfigReset ==
    /\ pc = "config"
    /\ \E key \in ConfigKeys \cup {"None"} :
          cfg' = ConfigCall("reset", cfg.store, config_reset(cfg.store, key),
                            key, "", <<>>, ConfigFile("absent", NoData))
    /\ UNCHANGED <<input, file, resume, clear_resume, skip_existing, pc, processed_urls,
                   failed_urls, urls, idx, success_count, failed_count, calls,
                   echoed, summary, exit_code, prior, sigint_at, stopped,
                   ioFailed, run, prev>>

InitConfig ==
    /\ input = <<>>
    /\ file = AbsentFile
    /\ resume = FALSE
    /\ clear_resume = FALSE
    /\ skip_existing = FALSE
    /\ FreshAt("config")
    /\ run = 1
    /\ prev = NoPrev
    /\ cfg = ConfigNew

NextConfig ==
    \/ ConfigLoad
    \/ ConfigSet
    \/ ConfigUpdate
    \/ ConfigReset

SpecConfig == InitConfig /\ [][NextConfig]_vars

\* ================================================================ properties
Skipped == {m \in echoed : m.msg = "skipping"}
OkCalls == {k \in 1..Len(calls) : calls[k].result = "ok"}
FailedCalls == {k \in 1..Len(calls) : calls[k].result \in {"failed", "raised"}}
Reached(j) == (\E k \in 1..Len(calls) : calls[k].idx = j) \/ Msg("skipping", j) \in echoed

\* C1 (as stated): after a complete, non-interrupted run success_count +
\* failed_count equals the number of entries attempted, the entries skipped in
\* resume mode excluded.
C1_Original ==
    (Complete /\ ~sigint) => success_count + failed_count = Len(calls)

\* C1 (amended): after a complete run success_count + failed_count equals the
\* number of entries of the list, which is the entries attempted plus the
\* entries skipped in resume mode: each skipped entry is counted in
\* success_count.
C1_Counts ==
    Complete =>
        /\ success_count + failed_count = Len(urls)
        /\ success_count + failed_count = Len(calls) + Cardinality(Skipped)

C1_Witness ==
    /\ Complete
    /\ Cardinality(Skipped) > 0
    /\ failed_count > 0
    /\ OkCalls # {}

\* The entry of the last failed call made for URL u.
LastFailure(u) ==
    LET ks == {k \in FailedCalls : calls[k].url = u}
    IN calls[CHOOSE k \in ks : \A j \in ks : j <= k].idx

\* C2 (as stated): when the call for entry X fails the loop still reaches
\* every later entry, and at the end failed_urls[X] holds a non-empty error
\* and the line number of X's entry, and failed_count counts the failure.
C2_Original ==
    Complete =>
        /\ \A k \in FailedCalls :
              LET u == calls[k].url
              IN /\ u \in DOMAIN failed_urls
                 /\ failed_urls[u].error # ""
                 /\ failed_urls[u].line = urls[calls[k].idx].line
                 /\ \A j \in (calls[k].idx + 1)..Len(urls) : Reached(j)
        /\ failed_count = Cardinality(FailedCalls)

\* C2 (amended): as stated, except that the map is keyed by URL, so the line
\* number it holds for X's URL is that of the last entry with that URL whose
\* call failed.
C2_ContinueOnError ==
    Complete =>
        /\ \A k \in FailedCalls :
              LET u == calls[k].url
              IN /\ u \in DOMAIN failed_urls
                 /\ failed_urls[u].error # ""
                 /\ failed_urls[u].line = urls[LastFailure(u)].line
                 /\ \A j \in (calls[k].idx + 1)..Len(urls) : Reached(j)
        /\ failed_count = Cardinality(FailedCalls)

C2_Witness ==
    /\ Complete
    /\ \E k \in FailedCalls :
          /\ calls[k].result = "raised"
          /\ \E j \in OkCalls : j > k
          /\ \E j \in FailedCalls : j > k /\ calls[j].url = calls[k].url

\* C3: in resume mode no URL that the resume state marked processed when
\* process_urls began is ever passed to the collaborator, each entry with such
\* a URL that the loop has passed was skipped, and every skip is counted in
\* success_count.
C3_ResumeSkips ==
    resume =>
        /\ \A k \in 1..Len(calls) : calls[k].url \notin prior.processed
        /\ \A i \in 1..Len(urls) :
              (i < idx /\ urls[i].url \in prior.processed)
                  => Msg("skipping", i) \in echoed
        /\ success_count = Cardinality(Skipped) + Cardinality(OkCalls)

C3_Witness ==
    /\ resume
    /\ Complete
    /\ \E m \in Skipped : urls[m.n].url \in prior.processed
    /\ OkCalls # {}

C5_Claim ==
    (resume /\ sigint /\ ~ioFailed /\ pc \in {"exited", "aborted"}) =>
        LET disk == BatchProcessor(file)
            before == {k \in 1..Len(calls) : calls[k].idx < sigint_at}
        IN /\ disk.processed =
                  prior.processed \cup {calls[k].url : k \in before \cap OkCalls}
           /\ DOMAIN disk.failed =
                  DOMAIN prior.failed \cup {calls[k].url : k \in before \cap FailedCalls}
           /\ (Msg("interrupted", 0) \in echoed \/ Msg("aborted", 0) \in echoed)

\* C6: once an interrupt has arrived, at entry sigint_at, no collaborator call
\* is started for a later entry.
C6_Claim ==
    sigint => \A k \in 1..Len(calls) : calls[k].idx <= sigint_at

\* C7: a run that reaches main's exit ends with status 0 when the list held a
\* valid URL and no call failed, and with status 1 otherwise; status 0 is
\* never the status of a run in which a call failed.
C7_ExitCode ==
    pc \in {"exited", "aborted"} =>
        /\ exit_code \in {0, 1}
        /\ exit_code = 0 => (urls # <<>> /\ FailedCalls = {})
        /\ (pc = "exited" /\ urls # <<>> /\ FailedCalls = {}) => exit_code = 0

C7_Witness ==
    /\ pc = "exited"
    /\ exit_code = 0
    /\ Len(calls) > 1
    /\ DOMAIN failed_urls # {}

\* ---- lines, described without the reading code
Blank(l) == \A j \in 1..Len(l) : l[j] = " "
FirstText(l) == CHOOSE j \in 1..Len(l) : l[j] # " " /\ \A i \in 1..(j - 1) : l[i] = " "
LastText(l) == CHOOSE j \in 1..Len(l) : l[j] # " " /\ \A i \in (j + 1)..Len(l) : l[i] = " "
Body(l) == SubSeq(l, FirstText(l), LastText(l))
CommentLine(l) == ~Blank(l) /\ l[FirstText(l)] = "#"
UrlLine(l) == ~Blank(l) /\ l[FirstText(l)] \in {"http://", "https://", "www."}
InvalidLine(l) == ~Blank(l) /\ ~CommentLine(l) /\ ~UrlLine(l)
ReportedLines == {m.n : m \in {e \in echoed : e.msg = "invalid_url"}}

\* C8: when the input list holds no valid URL the command, once it has read
\* the list, stops with exit status 1, says that no valid URL was found, and
\* never calls the collaborator.
C8_NoValidUrls ==
    (/\ pc \notin {"main", "clear", "read", "crashed"}
     /\ \A i \in 1..Len(input) : ~UrlLine(input[i]))
        => /\ pc = "exited"
           /\ exit_code = 1
           /\ Msg("no_valid_urls", 0) \in echoed
           /\ calls = <<>>
           /\ summary = NoSummary

C8_Witness ==
    /\ pc = "exited"
    /\ Len(input) > 1
    /\ urls = <<>>
    /\ ReportedLines # {}
    /\ Msg("no_valid_urls", 0) \in echoed

\* What read_urls_from_file must return for the input list.
ReturnsUrlLines ==
    /\ \A k \in 1..Len(urls) :
          /\ urls[k].line \in 1..Len(input)
          /\ UrlLine(input[urls[k].line])
          /\ urls[k].url = Body(input[urls[k].line])
    /\ \A k \in 1..(Len(urls) - 1) : urls[k].line < urls[k + 1].line
    /\ \A i \in 1..Len(input) :
          UrlLine(input[i]) => \E k \in 1..Len(urls) : urls[k].line = i

\* C9 (as stated): the list returned holds exactly the non-blank, non-comment
\* lines that pass validation, stripped, in order and with their 1-based line
\* numbers, and every skipped line is reported with its line number.
C9_Original ==
    pc # "read" =>
        /\ ReturnsUrlLines
        /\ ReportedLines = {i \in 1..Len(input) : ~UrlLine(input[i])}

\* C9 (amended): as stated, except that the lines reported are the lines
\* skipped for failing validation; blank lines and comment lines are skipped
\* without a report.
C9_ReadUrls ==
    pc # "read" =>
        /\ ReturnsUrlLines
        /\ ReportedLines = {i \in 1..Len(input) : InvalidLine(input[i])}

C9_Witness ==
    /\ pc # "read"
    /\ Len(urls) = 2
    /\ \E i \in 1..Len(input) : CommentLine(input[i])
    /\ \E i \in 1..Len(input) : Blank(input[i])
    /\ urls[1].url # urls[2].url

\* C10: a state saved by save_resume_data, once the write went through, is
\* loaded back by a new BatchProcessor with an equal processed set and an
\* equal failed map.
C10_RoundTrip ==
    (pc = "loaded" /\ ~ioFailed)
        => processed_urls = prior.processed /\ failed_urls = prior.failed

C10_Witness ==
    /\ pc = "loaded"
    /\ ~ioFailed
    /\ Cardinality(processed_urls) = 2
    /\ DOMAIN failed_urls # {}
    /\ file # InvalidFile

\* C11: loading the resume-state file fails open.  Whatever the file holds,
\* construction is survived (the batch is never aborted by the load); a file
\* that is absent, unreadable or not a JSON object leaves the empty state,
\* and a field missing from the object is empty.
C11_Claim ==
    /\ pc # "crashed"
    /\ pc = "clear" =>
          /\ file.kind # "json" =>
                (processed_urls = {} /\ failed_urls = EmptyMap)
          /\ "processed" \notin file.keys => processed_urls = {}
          /\ "failed" \notin file.keys => failed_urls = EmptyMap

\* C12: in resume mode the file is written after every entry whose outcome
\* becomes known, so at every point of a run (saves not failing) the state on
\* disk holds every outcome the process knows: it lacks at most the outcome
\* of the entry in flight, and a crash at that point loses no more.
C12_Claim ==
    (resume /\ ~ioFailed
       /\ pc \in {"loop", "call", "summary", "exited", "aborted", "killed"})
        => LET disk == BatchProcessor(file)
           IN /\ processed_urls \subseteq disk.processed
              /\ \A u \in DOMAIN failed_urls :
                    u \in DOMAIN disk.failed /\ disk.failed[u] = failed_urls[u]

\* C13: in the configuration store, set with a key that is not recognized
\* raises the invalid-key error and changes no stored value; load takes the
\* recognized keys of the file and ignores the others; and after any sequence
\* of load, set, update and reset the stored keys are exactly the recognized
\* keys.
C13_ConfigKeys ==
    /\ DOMAIN cfg.store = DOMAIN DEFAULTS
    /\ (cfg.op = "set" /\ cfg.key \notin DOMAIN DEFAULTS)
          => (cfg.err = "KeyError" /\ cfg.store = cfg.before)
    /\ (cfg.op = "load" /\ cfg.user.kind = "json")
          => \A k \in DOMAIN DEFAULTS :
                cfg.store[k] = IF k \in DOMAIN cfg.user.data
                               THEN cfg.user.data[k] ELSE cfg.before[k]

C13_Witness ==
    /\ cfg.op = "set"
    /\ cfg.key \notin DOMAIN DEFAULTS
    /\ cfg.err = "KeyError"
    /\ \A k \in DOMAIN DEFAULTS : cfg.store[k] # DEFAULTS[k]

\* C14: a run that found at least one valid URL prints the final summary,
\* whether the loop ran to its end or was interrupted: when such a run has
\* ended, the summary has been printed.
C14_Claim ==
    (pc \in {"exited", "aborted"} /\ urls # <<>>) => summary # NoSummary

\* The error text recorded for the failed call k, and the last failed call
\* made for URL u.
ErrorOf(k) == IF calls[k].result = "raised" THEN MkdirError ELSE "Download failed"
LastFailedCall(u) ==
    LET ks == {k \in FailedCalls : calls[k].url = u}
    IN CHOOSE k \in ks : \A j \in ks : j <= k

\* C15 (as stated): the end-of-run report states the number of entries
\* attempted, success_count and failed_count, and for each failure counted by
\* failed_count it has an entry with the line number of that failure's entry
\* and its error text.
C15_Original ==
    summary # NoSummary =>
        /\ summary.total = Len(calls)
        /\ summary.success = success_count
        /\ summary.failed = failed_count
        /\ failed_count = Cardinality(FailedCalls)
        /\ \A k \in FailedCalls :
              \E u \in DOMAIN summary.failures :
                 /\ summary.failures[u].line = urls[calls[k].idx].line
                 /\ summary.failures[u].error = ErrorOf(k)

\* C15 (amended): the report states the number of entries of the list
\* (attempted or not), success_count and failed_count, and for each failure
\* counted by failed_count it has an entry for that failure's URL, giving the
\* line number and the error text of the last failure of that URL.
C15_Report ==
    summary # NoSummary =>
        /\ summary.total = Len(urls)
        /\ summary.success = success_count
        /\ summary.failed = failed_count
        /\ failed_count = Cardinality(FailedCalls)
        /\ \A k \in FailedCalls :
              LET u == calls[k].url
              IN /\ u \in DOMAIN summary.failures
                 /\ summary.failures[u].line = urls[calls[LastFailedCall(u)].idx].line
                 /\ summary.failures[u].error = ErrorOf(LastFailedCall(u))

C15_Witness ==
    /\ summary # NoSummary
    /\ Len(calls) < Len(urls)
    /\ \E j, k \in FailedCalls :
          /\ j < k
          /\ calls[j].url = calls[k].url
          /\ calls[j].result # calls[k].result

\* C16: an interrupt is not a failure.  The entry at which the (first)
\* interrupt arrived, sigint_at, is not among the failures failed_count counts
\* and its URL is not added to the failed map on account of it.
C16_Claim ==
    sigint =>
        LET others == {k \in FailedCalls : calls[k].idx # sigint_at}
        IN /\ failed_count = Cardinality(others)
           /\ DOMAIN failed_urls =
                 DOMAIN prior.failed \cup {calls[k].url : k \in others}

\* What the process prints: the messages of read_urls_from_file, of
\* process_urls and of main.  None of them reports a save that failed.
Messages ==
    {"cleared", "invalid_url", "no_valid_urls", "skipping",
     "checking_existing", "interrupted", "progress_saved", "aborted"}

\* C17 (as stated): a write of the resume-state file that fails is logged as
\* a warning.
C17_Original ==
    ioFailed => \E m \in echoed : m.msg \notin Messages

\* C17 (amended): a write of the resume-state file that fails is not fatal
\* and is not reported.  The process does not end on it, it prints nothing
\* about it, the state in memory and the counts are what the calls made them,
\* and the loop goes on: every entry before idx has been dealt with, and a
\* run that was not stopped ends only after the last entry.
C17_SaveFailureNonFatal ==
    ioFailed =>
        /\ pc # "crashed"
        /\ \A m \in echoed : m.msg \in Messages
        /\ processed_urls =
              prior.processed \cup {calls[k].url : k \in OkCalls}
        /\ DOMAIN failed_urls =
              DOMAIN prior.failed \cup {calls[k].url : k \in FailedCalls}
        /\ success_count = Cardinality(Skipped) + Cardinality(OkCalls)
        /\ failed_count = Cardinality(FailedCalls)
        /\ \A j \in 1..Len(urls) : j < idx => Reached(j)
        /\ (pc \in {"summary", "exited"} /\ ~stopped) => idx = Len(urls) + 1

C17_Witness ==
    /\ ioFailed
    /\ Complete
    /\ BatchProcessor(file).processed # processed_urls
    /\ \E j \in OkCalls, k \in FailedCalls : j < k
    /\ Len(calls) = 3

\* The URLs marked processed when the loop came to entry i.
ProcessedBefore(i) ==
    prior.processed
        \cup {calls[k].url : k \in {j \in OkCalls : calls[j].idx < i}}

Invoked(i) == \E k \in 1..Len(calls) : calls[k].idx = i
SkipRule(i) == resume /\ urls[i].url \in ProcessedBefore(i)

\* C19: the collaborator is invoked for exactly the entries that are not
\* skipped: of the entries the loop has passed, an entry was skipped if and
\* only if resume is on and its URL was in the processed set when the loop
\* came to it, and it was invoked if and only if not; every call is the call
\* of an entry of the list with that entry's URL.  With resume off nothing is
\* skipped, and a URL found only in the failed map is not skipped.
C19_Invocation ==
    /\ \A i \in 1..Len(urls) :
          i < idx =>
              /\ Msg("skipping", i) \in echoed <=> SkipRule(i)
              /\ Invoked(i) <=> ~SkipRule(i)
    /\ \A k \in 1..Len(calls) :
          /\ calls[k].idx \in 1..Len(urls)
          /\ calls[k].idx <= idx
          /\ calls[k].url = urls[calls[k].idx].url
          /\ ~SkipRule(calls[k].idx)
    /\ ~resume => Skipped = {}

C19_Witness ==
    /\ resume
    /\ Complete
    /\ Skipped # {}
    /\ \E k \in 1..Len(calls) :
          calls[k].url \in DOMAIN prior.failed \ prior.processed

\* C20: the calls of the collaborator are made one after the other in the
\* order of the list: at most one call is in flight, it is the one made last
\* (every call before it has returned), and the calls were made for entries
\* of increasing position.
C20_Sequential ==
    /\ \A k \in 1..Len(calls) :
          calls[k].result = "inflight" => (k = Len(calls) /\ pc = "call")
    /\ \A j, k \in 1..Len(calls) : j < k => calls[j].idx < calls[k].idx
    /\ pc = "call" => (calls # <<>> /\ calls[Len(calls)].idx = idx)

C20_Witness ==
    /\ pc = "call"
    /\ Len(calls) = 3
    /\ calls[1].result = "ok"
    /\ calls[2].result = "failed"

C22_ClearResume ==
    clear_resume =>
        /\ pc = "read" =>
              (processed_urls = {} /\ failed_urls = EmptyMap
                 /\ file = AbsentFile)
        /\ urls # <<>> => prior = EmptyState
        /\ \A m \in Skipped :
              \E k \in OkCalls :
                 calls[k].idx < m.n /\ calls[k].url = urls[m.n].url
        /\ summary # NoSummary =>
              \A u \in DOMAIN summary.failures :
                 \E k \in FailedCalls : calls[k].url = u

C22_Witness ==
    /\ clear_resume
    /\ resume
    /\ Msg("cleared", 0) \in echoed
    /\ summary # NoSummary
    /\ Skipped # {}
    /\ DOMAIN summary.failures # {}

\* The input list holds no valid URL: it is empty or all-invalid.
NoUrlLine == \A i \in 1..Len(input) : ~UrlLine(input[i])

\* C23 (as stated): when the list is empty or all-invalid no step of the run
\* changes the resume-state file, whatever the resume and clear_resume flags.
C23_Original ==
    [][NoUrlLine => file' = file]_vars

\* C23 (amended): when the list is empty or all-invalid and clear_resume is
\* off, no step of the run changes the resume-state file, with resume on or
\* off, and no call is made; with clear_resume on the only change is that a
\* file that existed is removed, before the list is read.
C23_NoWork ==
    [][NoUrlLine =>
          /\ calls' = <<>>
          /\ ~clear_resume => file' = file
          /\ clear_resume => (file' = file \/ (pc = "clear" /\ file' = AbsentFile))]_vars

C23_Witness ==
    /\ NoUrlLine
    /\ Len(input) > 1
    /\ pc = "exited"
    /\ resume
    /\ ~clear_resume
    /\ file.kind = "json"
    /\ Msg("no_valid_urls", 0) \in echoed

\* No URL of the state st is both processed and a key of the failed map.
Disjoint(st) == st.processed \cap DOMAIN st.failed = {}

\* C24: the processed set and the failed map stay disjoint.  In a run whose
\* processing started from a state in which they were disjoint, no URL is at
\* the same time in processed_urls and a key of failed_urls, and the same
\* holds of the state in the file.
C24_Claim ==
    (urls # <<>> /\ Disjoint(prior)) =>
        /\ Disjoint([processed |-> processed_urls, failed |-> failed_urls])
        /\ Disjoint(BatchProcessor(file))

\* C25: every failed URL that the final summary and the report list is a URL
\* for which a call failed in this run; failures loaded from the file of an
\* earlier run are not listed, with resume on or off.
C25_Claim ==
    summary # NoSummary =>
        \A u \in DOMAIN summary.failures :
           \E k \in FailedCalls : calls[k].url = u

\* C26: with resume off and clear_resume off no step of a run changes the
\* resume-state file, whatever the outcomes of the calls and whether or not
\* the run is interrupted.
C26_NoWriteWithoutResume ==
    [][(~resume /\ ~clear_resume) => file' = file]_vars

C26_Witness ==
    /\ ~resume
    /\ ~clear_resume
    /\ pc = "exited"
    /\ stopped
    /\ OkCalls # {}
    /\ FailedCalls # {}
    /\ file.kind = "json"
    /\ BatchProcessor(file).processed # processed_urls

\* The URLs the file records as processed.
OnDisk(f) == BatchProcessor(f).processed

\* C27: durable progress is never lost in resume mode.  In runs with resume on
\* and clear_resume off, a URL that the file records as processed is still
\* recorded as processed after every later step, of this run and of the runs
\* after it, also when a run is interrupted or dies while the file is written.
C27_Claim ==
    [][(resume /\ ~clear_resume) => OnDisk(file) \subseteq OnDisk(file')]_vars

\* C28: Config.update is all-or-nothing.  An update whose mapping holds a
\* key that is not recognized raises the invalid-key error and changes no
\* stored value, wherever in the mapping that key stands.
C28_Claim ==
    (cfg.op = "update"
       /\ \E i \in DOMAIN cfg.updates : cfg.updates[i][1] \notin DOMAIN DEFAULTS)
        => (cfg.err = "KeyError" /\ cfg.store = cfg.before)

====
